---- MODULE Spec2Model ----
(***************************************************************************)
(* Treasury Settlement Planner / Executor.                                 *)
(*                                                                         *)
(* Model of buildTreasuryPlan, executeTreasuryPlan and                     *)
(* pollTransactionComplete (lib/services/treasuryManager.ts, in this       *)
(* tree the second half of src/app/lib/services/geminiService.ts) and of   *)
(* the execute endpoint (src/app/api/treasury/execute/route.ts).           *)
(*                                                                         *)
(* Decimal strings ("50", "0.06") are modelled by their value in           *)
(* hundredths (5000, 6).  The planner converts them with parseFloat and    *)
(* then adds, subtracts and compares IEEE-754 doubles; the doubles are     *)
(* modelled exactly, as naturals counting units of 2^-60 held in four      *)
(* limbs of 20 bits, rounded to 53 significant bits (ties to even) after   *)
(* every operation.                                                       *)
(***************************************************************************)
EXTENDS Integers, Sequences, FiniteSets, TLC

\* ------------------------------------------------------------------------
\* IEEE-754 double arithmetic on the values the planner handles
\* ------------------------------------------------------------------------

\* limb base of the fixed-point representation: <<l0, l1, l2, l3>> stands
\* for (l0 + l1*B + l2*B^2 + l3*B^3) * 2^-60, so l3 is the integer part
B == 2^20

Zero == <<0, 0, 0, 0>>

\* number of significant bits of one limb
BitLenLimb(x) == CHOOSE n \in 0..30 : x < 2^n /\ (n = 0 \/ x >= 2^(n - 1))

BitLen(x) ==
  IF x[4] > 0 THEN 60 + BitLenLimb(x[4])
  ELSE IF x[3] > 0 THEN 40 + BitLenLimb(x[3])
  ELSE IF x[2] > 0 THEN 20 + BitLenLimb(x[2])
  ELSE BitLenLimb(x[1])

\* exact sum, carries propagated
AddN(a, b) ==
  LET s1 == a[1] + b[1]
      s2 == a[2] + b[2] + (s1 \div B)
      s3 == a[3] + b[3] + (s2 \div B)
      s4 == a[4] + b[4] + (s3 \div B)
  IN  <<s1 % B, s2 % B, s3 % B, s4>>

\* a < b
Lt(a, b) ==
  \/ a[4] < b[4]
  \/ a[4] = b[4] /\ a[3] < b[3]
  \/ a[4] = b[4] /\ a[3] = b[3] /\ a[2] < b[2]
  \/ a[4] = b[4] /\ a[3] = b[3] /\ a[2] = b[2] /\ a[1] < b[1]

\* exact difference a - b, for b <= a
SubN(a, b) ==
  LET d1 == a[1] - b[1]
      w1 == IF d1 < 0 THEN 1 ELSE 0
      d2 == a[2] - b[2] - w1
      w2 == IF d2 < 0 THEN 1 ELSE 0
      d3 == a[3] - b[3] - w2
      w3 == IF d3 < 0 THEN 1 ELSE 0
  IN  <<d1 + w1 * B, d2 + w2 * B, d3 + w3 * B, a[4] - b[4] - w3>>

\* round to nearest double: keep 53 significant bits, ties to even; sticky
\* says that the exact value has further nonzero bits below 2^-60
Round53(x, sticky) ==
  LET d == BitLen(x) - 53
  IN  IF d <= 0 THEN x
      ELSE LET q    == x[1] \div 2^d
               rem  == x[1] % 2^d
               half == 2^(d - 1)
               up   == \/ rem > half
                       \/ rem = half /\ sticky
                       \/ rem = half /\ q % 2 = 1
           IN  AddN(<<q * 2^d, x[2], x[3], x[4]>>,
                    <<(IF up THEN 2^d ELSE 0), 0, 0, 0>>)

\* a + b and a - b on doubles (a >= b for the difference)
FAdd(a, b) == Round53(AddN(a, b), FALSE)
FSub(a, b) == Round53(SubN(a, b), FALSE)

\* parseFloat of the decimal string worth c hundredths: the double nearest
\* to c/100
parseFloat(c) ==
  LET t3 == (c % 100) * B
      t2 == (t3 % 100) * B
      t1 == (t2 % 100) * B
  IN  Round53(<<t1 \div 100, t2 \div 100, t3 \div 100, c \div 100>>,
              t1 % 100 # 0)

\* x * 10, on five limbs
Mul10(x) ==
  LET p1 == x[1] * 10
      p2 == x[2] * 10 + (p1 \div B)
      p3 == x[3] * 10 + (p2 \div B)
      p4 == x[4] * 10 + (p3 \div B)
      p5 == x[5] * 10 + (p4 \div B)
  IN  <<p1 % B, p2 % B, p3 % B, p4 % B, p5>>

\* Number.prototype.toFixed(6) followed by parseUnits(., 6): the integer n
\* of millionths for which n / 10^6 is nearest to x, the larger n on a tie
toFixed6(x) ==
  LET m == Mul10(Mul10(Mul10(Mul10(Mul10(Mul10(<<x[1], x[2], x[3], x[4], 0>>))))))
  IN  m[4] + m[5] * B + (IF m[3] >= B \div 2 THEN 1 ELSE 0)

\* ------------------------------------------------------------------------
\* Configuration
\* ------------------------------------------------------------------------

ARC_WALLET_ID == "arc-wallet"
SEPOLIA_WALLET_ID == "sepolia-wallet"

\* slippage in basis points (5%)
SLIPPAGE_BPS == 500

\* 0.01 USDC reserved for gas on Arc: the double nearest to 1 hundredth
ARC_GAS_BUFFER == parseFloat(1)

\* ------------------------------------------------------------------------
\* Inputs: invoices and the answers of the external services
\* ------------------------------------------------------------------------

\* the amount string of an invoice is a sequence of tokens: numbers (in
\* hundredths) and words
Num(v) == [t |-> "num", v |-> v]
Word(w) == [t |-> "word", w |-> w]

\* quotes are multiples of 100 wei-units, up to MaxQuote hundreds
MaxQuote == 2

\* seconds a status query may take, at most
MaxLatency == 1

InvoiceAmounts == {5, 5000}

RawAmounts ==
  {<<Num(a), Word(w)>> : a \in InvoiceAmounts, w \in {"USDC", "EURC"}}
    \cup {<<Num(5000), Word("usdc")>>, <<Num(5000), Word("ETH")>>,
          <<Num(5000)>>, <<Word("USDC"), Num(5000)>>, <<Word("NOT_FOUND")>>}

Invoices == [amount : RawAmounts, walletAddress : {"0xRecipient"}]

TokenBalance(s, a) == [symbol |-> s, amount |-> a]

\* token balance lists the custody service may report for a wallet
WalletBalances(amounts) ==
  {<<>>} \cup {<<TokenBalance("EURC", a), TokenBalance("USDC", a)>> : a \in amounts}

ArcAnswers == WalletBalances({6, 1000, 10000})
SepoliaAnswers == WalletBalances({6, 2000, 4001})
EthAnswers == {105, 209}
QuoteAnswers == {100 * k : k \in 1..MaxQuote}

\* an answer is <<v>>; <<>> stands for a call that throws
Returned(S) == {<<v>> : v \in S}
Thrown == <<>>

PlanningEnvs ==
  [arc : Returned(ArcAnswers) \cup {Thrown},
   sepolia : Returned(SepoliaAnswers) \cup {Thrown},
   eth : Returned(EthAnswers) \cup {Thrown},
   quote : Returned(QuoteAnswers) \cup {Thrown}]

\* ------------------------------------------------------------------------
\* Helpers
\* ------------------------------------------------------------------------

toUpperCase(w) ==
  CASE w = "usdc" -> "USDC"
    [] w = "eurc" -> "EURC"
    [] w = "eth" -> "ETH"
    [] OTHER -> w

\* a parser that accepts whatever currency follows the number
parseInvoiceCurrency_AnyCurrency(amountRaw) ==
  LET hits == {i \in 1..(Len(amountRaw) - 1) :
                 amountRaw[i].t = "num" /\ amountRaw[i + 1].t = "word"}
  IN  IF hits = {} THEN <<>>
      ELSE LET i == CHOOSE h \in hits : \A g \in hits : h <= g
           IN  <<[amount |-> amountRaw[i].v,
                  currency |-> toUpperCase(amountRaw[i + 1].w)]>>

\* /([0-9]+(?:\.[0-9]+)?)\s*([A-Za-z]+)/ : the first number that is followed
\* by a word; <<>> stands for null
parseInvoiceCurrency(amountRaw) ==
  LET hits == {i \in 1..(Len(amountRaw) - 1) :
                 amountRaw[i].t = "num" /\ amountRaw[i + 1].t = "word"}
  IN  IF hits = {} THEN <<>>
      ELSE LET i == CHOOSE h \in hits : \A g \in hits : h <= g
               currency == toUpperCase(amountRaw[i + 1].w)
           IN  IF currency # "USDC" /\ currency # "EURC" THEN <<>>
               ELSE <<[amount |-> amountRaw[i].v, currency |-> currency]>>

\* amount of the first balance whose symbol is the given one, else '0'
RECURSIVE findTokenBalance(_, _)
findTokenBalance(balances, symbol) ==
  IF balances = <<>> THEN 0
  ELSE IF toUpperCase(Head(balances).symbol) = symbol THEN Head(balances).amount
  ELSE findTokenBalance(Tail(balances), symbol)

\* a bound rounded up to the next base unit
MaxAmountIn_RoundedUp(amountIn) ==
  (amountIn * (10000 + SLIPPAGE_BPS) + 9999) \div 10000

\* a bound without the slippage buffer
MaxAmountIn_NoSlippage(amountIn) == amountIn

\* (amountIn * BigInt(10000 + SLIPPAGE_BPS)) / BigInt(10000)
MaxAmountIn(amountIn) == (amountIn * (10000 + SLIPPAGE_BPS)) \div 10000

Step(id) == [id |-> id, status |-> "pending"]

Read(op, arg, answer) == [op |-> op, arg |-> arg, answer |-> answer]

\* ------------------------------------------------------------------------
\* Build Plan (no execution)
\* ------------------------------------------------------------------------

\* what a call of buildTreasuryPlan comes to: the plan it resolves to (or
\* threw, when one of its reads throws) and the external reads it made
\* Fields of the plan that hold amounts: arcBalance and sepoliaUsdcBalance in
\* hundredths, bridgeAmount in millionths (toFixed(6)), the ETH amounts in
\* wei; deficit is the double itself, since deficit.toString() is read back
\* with parseFloat and that round trip is exact.  null is <<>>.
Planned(plan, reads) == [threw |-> FALSE, plan |-> <<plan>>, reads |-> reads]
Rejected(reads) == [threw |-> TRUE, plan |-> <<>>, reads |-> reads]

\* the plan returned for an amount that does not parse
UnsupportedPlan(invoiceData) ==
  [invoiceAmount |-> invoiceData.amount, invoiceCurrency |-> "UNKNOWN",
   recipientAddress |-> invoiceData.walletAddress,
   arcBalance |-> 0, arcSufficient |-> FALSE, deficit |-> Zero,
   sepoliaEthBalance |-> 0, sepoliaUsdcBalance |-> 0,
   swapNeeded |-> FALSE, swapQuoteEth |-> <<>>,
   bridgeNeeded |-> FALSE, bridgeAmount |-> <<>>,
   steps |-> <<>>, canExecute |-> FALSE,
   reason |-> <<[kind |-> "Only USDC and EURC invoices are supported"]>>]

\* the plan returned when Arc holds enough: a single transfer
TransferOnlyPlan(invoiceData, parsed, arcTokenBalance) ==
  [invoiceAmount |-> <<Num(parsed.amount)>>, invoiceCurrency |-> parsed.currency,
   recipientAddress |-> invoiceData.walletAddress,
   arcBalance |-> arcTokenBalance, arcSufficient |-> TRUE, deficit |-> Zero,
   sepoliaEthBalance |-> 0, sepoliaUsdcBalance |-> 0,
   swapNeeded |-> FALSE, swapQuoteEth |-> <<>>,
   bridgeNeeded |-> FALSE, bridgeAmount |-> <<>>,
   steps |-> <<Step("transfer")>>, canExecute |-> TRUE,
   reason |-> <<>>]

\* a rejection that gives no reason
EurcShortPlan_NoReason(invoiceData, parsed, arcTokenBalance, deficit) ==
  [invoiceAmount |-> <<Num(parsed.amount)>>, invoiceCurrency |-> parsed.currency,
   recipientAddress |-> invoiceData.walletAddress,
   arcBalance |-> arcTokenBalance, arcSufficient |-> FALSE, deficit |-> deficit,
   sepoliaEthBalance |-> 0, sepoliaUsdcBalance |-> 0,
   swapNeeded |-> FALSE, swapQuoteEth |-> <<>>,
   bridgeNeeded |-> FALSE, bridgeAmount |-> <<>>,
   steps |-> <<>>, canExecute |-> FALSE,
   reason |-> <<>>]

\* the plan returned for an EURC invoice that Arc cannot pay
EurcShortPlan(invoiceData, parsed, arcTokenBalance, deficit) ==
  [invoiceAmount |-> <<Num(parsed.amount)>>, invoiceCurrency |-> parsed.currency,
   recipientAddress |-> invoiceData.walletAddress,
   arcBalance |-> arcTokenBalance, arcSufficient |-> FALSE, deficit |-> deficit,
   sepoliaEthBalance |-> 0, sepoliaUsdcBalance |-> 0,
   swapNeeded |-> FALSE, swapQuoteEth |-> <<>>,
   bridgeNeeded |-> FALSE, bridgeAmount |-> <<>>,
   steps |-> <<>>, canExecute |-> FALSE,
   reason |-> <<[kind |-> "Insufficient EURC on Arc",
                 have |-> arcTokenBalance, need |-> parsed.amount]>>]

\* the plan returned when the buffered quote exceeds the ETH held
EthShortPlan(invoiceData, parsed, arcTokenBalance, deficit, ethBalanceWei, sepoliaUsdcBalance, maxAmountIn) ==
  [invoiceAmount |-> <<Num(parsed.amount)>>, invoiceCurrency |-> parsed.currency,
   recipientAddress |-> invoiceData.walletAddress,
   arcBalance |-> arcTokenBalance, arcSufficient |-> FALSE, deficit |-> deficit,
   sepoliaEthBalance |-> ethBalanceWei, sepoliaUsdcBalance |-> sepoliaUsdcBalance,
   swapNeeded |-> TRUE, swapQuoteEth |-> <<maxAmountIn>>,
   bridgeNeeded |-> TRUE, bridgeAmount |-> <<toFixed6(deficit)>>,
   steps |-> <<>>, canExecute |-> FALSE,
   reason |-> <<[kind |-> "Insufficient ETH on Sepolia for swap",
                 need |-> maxAmountIn, have |-> ethBalanceWei]>>]

\* the plan returned for a USDC invoice funded from Sepolia
FundedPlan(invoiceData, parsed, arcTokenBalance, deficit, sepoliaEthBalance, sepoliaUsdcBalance, swapNeeded, swapQuoteEth) ==
  [invoiceAmount |-> <<Num(parsed.amount)>>, invoiceCurrency |-> parsed.currency,
   recipientAddress |-> invoiceData.walletAddress,
   arcBalance |-> arcTokenBalance, arcSufficient |-> FALSE, deficit |-> deficit,
   sepoliaEthBalance |-> sepoliaEthBalance, sepoliaUsdcBalance |-> sepoliaUsdcBalance,
   swapNeeded |-> swapNeeded, swapQuoteEth |-> swapQuoteEth,
   bridgeNeeded |-> TRUE, bridgeAmount |-> <<toFixed6(deficit)>>,
   steps |-> (IF swapNeeded THEN <<Step("swap")>> ELSE <<>>)
               \o <<Step("bridge"), Step("transfer")>>,
   canExecute |-> TRUE,
   reason |-> <<>>]

\* arcBalanceNum >= (invoiceAmountNum + ARC_GAS_BUFFER), on doubles
ArcSufficient(invoiceAmountNum, arcBalanceNum) ==
  ~Lt(arcBalanceNum, FAdd(invoiceAmountNum, ARC_GAS_BUFFER))

\* a deficit that forgets the gas buffer
Deficit_NoBuffer(invoiceAmountNum, arcBalanceNum) ==
  IF Lt(invoiceAmountNum, arcBalanceNum) THEN Zero
  ELSE FSub(invoiceAmountNum, arcBalanceNum)

\* (invoiceAmountNum + ARC_GAS_BUFFER) - arcBalanceNum, when Arc is short
Deficit(invoiceAmountNum, arcBalanceNum) ==
  FSub(FAdd(invoiceAmountNum, ARC_GAS_BUFFER), arcBalanceNum)

\* a planner that takes every currency to be reachable by swap
CannotSwapTo_Never(currency) == FALSE

\* currency === 'EURC': no swap to EURC on Sepolia
CannotSwapTo(currency) == currency = "EURC"

\* needToSwap > 0, for needToSwap = deficit - sepoliaCanCover
NeedToSwapPositive(deficit, sepoliaCanCover) == Lt(sepoliaCanCover, deficit)

\* a planner that already submits the swap once it has the quote
PlanSwap_Submits(invoiceData, parsed, arcTokenBalance, deficit, sepoliaUsdcBalance, env, reads) ==
  LET needToSwap == FSub(deficit, parseFloat(sepoliaUsdcBalance))
      swapAmountUsdc == toFixed6(needToSwap)
      reads3 == Append(reads, Read("getBalance", "sepolia", env.eth))
      reads4 == Append(reads3, Read("quoteExactOutputSingle", swapAmountUsdc, env.quote))
      reads5 == Append(reads4, Read("executeContractCall", SEPOLIA_WALLET_ID, <<"tx-swap">>))
  IN  IF env.eth = Thrown THEN Rejected(reads3)
      ELSE IF env.quote = Thrown THEN Rejected(reads4)
      ELSE LET ethBalanceWei == env.eth[1]
               maxAmountIn == MaxAmountIn(env.quote[1])
           IN  IF maxAmountIn > ethBalanceWei
               THEN Planned(EthShortPlan(invoiceData, parsed, arcTokenBalance,
                              deficit, ethBalanceWei, sepoliaUsdcBalance,
                              maxAmountIn), reads4)
               ELSE Planned(FundedPlan(invoiceData, parsed, arcTokenBalance,
                              deficit, ethBalanceWei, sepoliaUsdcBalance,
                              TRUE, <<maxAmountIn>>), reads5)

\* the swap branch: ETH balance, quote, slippage bound, ETH check
PlanSwap(invoiceData, parsed, arcTokenBalance, deficit, sepoliaUsdcBalance, env, reads) ==
  LET needToSwap == FSub(deficit, parseFloat(sepoliaUsdcBalance))
      swapAmountUsdc == toFixed6(needToSwap)
      reads3 == Append(reads, Read("getBalance", "sepolia", env.eth))
      reads4 == Append(reads3, Read("quoteExactOutputSingle", swapAmountUsdc, env.quote))
  IN  IF env.eth = Thrown THEN Rejected(reads3)
      ELSE IF env.quote = Thrown THEN Rejected(reads4)
      ELSE LET ethBalanceWei == env.eth[1]
               maxAmountIn == MaxAmountIn(env.quote[1])
           IN  IF maxAmountIn > ethBalanceWei
               THEN Planned(EthShortPlan(invoiceData, parsed, arcTokenBalance,
                              deficit, ethBalanceWei, sepoliaUsdcBalance,
                              maxAmountIn), reads4)
               ELSE Planned(FundedPlan(invoiceData, parsed, arcTokenBalance,
                              deficit, ethBalanceWei, sepoliaUsdcBalance,
                              TRUE, <<maxAmountIn>>), reads4)

\* Arc does not hold enough: look at Sepolia
PlanFromSepolia(invoiceData, parsed, arcTokenBalance, deficit, env, reads) ==
  LET reads2 == Append(reads, Read("getWalletTokenBalances", SEPOLIA_WALLET_ID, env.sepolia))
  IN  IF env.sepolia = Thrown THEN Rejected(reads2)
      ELSE LET sepoliaUsdcBalance == findTokenBalance(env.sepolia[1], "USDC")
           IN  IF CannotSwapTo(parsed.currency)
               THEN Planned(EurcShortPlan(invoiceData, parsed, arcTokenBalance,
                                          deficit), reads2)
               ELSE IF NeedToSwapPositive(deficit, parseFloat(sepoliaUsdcBalance))
               THEN PlanSwap(invoiceData, parsed, arcTokenBalance, deficit,
                             sepoliaUsdcBalance, env, reads2)
               ELSE Planned(FundedPlan(invoiceData, parsed, arcTokenBalance,
                              deficit, 0, sepoliaUsdcBalance, FALSE, <<>>), reads2)

buildTreasuryPlan(invoiceData, env) ==
  LET parsedOrNull == parseInvoiceCurrency(invoiceData.amount)
  IN  IF parsedOrNull = <<>> THEN Planned(UnsupportedPlan(invoiceData), <<>>)
      ELSE LET parsed == parsedOrNull[1]
               invoiceAmountNum == parseFloat(parsed.amount)
               reads1 == <<Read("getWalletTokenBalances", ARC_WALLET_ID, env.arc)>>
           IN  IF env.arc = Thrown THEN Rejected(reads1)
               ELSE LET arcTokenBalance == findTokenBalance(env.arc[1], parsed.currency)
                        arcBalanceNum == parseFloat(arcTokenBalance)
                    IN  IF ArcSufficient(invoiceAmountNum, arcBalanceNum)
                        THEN Planned(TransferOnlyPlan(invoiceData, parsed,
                                                      arcTokenBalance), reads1)
                        ELSE PlanFromSepolia(invoiceData, parsed, arcTokenBalance,
                               Deficit(invoiceAmountNum, arcBalanceNum),
                               env, reads1)

\* ------------------------------------------------------------------------
\* Execute Plan: trace entries and the executor's control flow
\* ------------------------------------------------------------------------

\* default timeout of pollTransactionComplete and the pause between two
\* status queries, in milliseconds
timeoutMs == 120000
POLL_INTERVAL_MS == 3000

\* an event of the execute endpoint's stream other than step_update
Event(e, error) == [kind |-> "event", event |-> e, error |-> error]

\* controller.close()
Close == [kind |-> "close"]

\* onStepUpdate(stepId, update): in the endpoint, a step_update event
Update(stepId, status, error, txHash) ==
  [kind |-> "update", stepId |-> stepId, status |-> status,
   error |-> error, txHash |-> txHash]

\* a submission: executeContractCall, kit.bridge or executeTransfer
Call(op, args) == [kind |-> "call", op |-> op, args |-> args]

\* the re-quote made by the executor
Quote(exactAmount, answer) ==
  [kind |-> "quote", exactAmount |-> exactAmount, answer |-> answer]

\* a step's operation failed: what was thrown, and in which step
Fault(at, error) == [kind |-> "fault", at |-> at, error |-> error]

\* values that external calls throw: an Error with a message, or something
\* that is not an Error
ThrownValues ==
  {[isError |-> TRUE, message |-> <<"upstream request failed">>],
   [isError |-> FALSE, message |-> <<>>]}

\* error instanceof Error ? error.message : 'Unknown execution error'
ErrMsg(thrown) ==
  IF thrown.isError THEN thrown.message ELSE <<"Unknown execution error">>

Err(message) == [isError |-> TRUE, message |-> message]

\* plan.steps.find(s => s.id === id)
HasStep(p, id) == \E i \in 1..Len(p.steps) : p.steps[i].id = id

\* the executor's position: control point, trace so far, result once it has
\* returned, and the time spent in the current polling loop
Exec(at, tr, res) == [pc |-> at, trace |-> tr, result |-> res, elapsed |-> 0]

\* an endpoint that closes the stream of a failed execution without a word
RouteFinish_SilentFailure(tr, res) ==
  Exec("done",
       tr \o (IF res.success
                THEN <<Event("execution_complete", <<>>), Close>>
                ELSE <<Close>>),
       <<res>>)

\* the endpoint after executeTreasuryPlan has returned: terminal event, close
RouteFinish(tr, res) ==
  Exec("done",
       tr \o <<(IF res.success
                 THEN Event("execution_complete", <<>>)
                 ELSE Event("execution_error", res.error)),
               Close>>,
       <<res>>)

\* a catch block that tells every step of the plan failed
FailedUpdates_All(steps, errMsg) ==
  [n \in 1..Len(steps) |-> Update(steps[n].id, "failed", errMsg, <<>>)]

\* for (const step of plan.steps) if (step.status === 'running') onStepUpdate(...)
RECURSIVE FailedUpdates(_, _)
FailedUpdates(steps, errMsg) ==
  IF steps = <<>> THEN <<>>
  ELSE (IF Head(steps).status = "running"
         THEN <<Update(Head(steps).id, "failed", errMsg, <<>>)>>
         ELSE <<>>)
       \o FailedUpdates(Tail(steps), errMsg)

\* 3. Transfer on Arc: up to the await of executeTransfer
EnterTransfer(p, tr) ==
  IF HasStep(p, "transfer")
  THEN Exec("transfer_submit",
            tr \o <<Update("transfer", "running", <<>>, <<>>),
                    Call("executeTransfer",
                         [walletId |-> ARC_WALLET_ID,
                          tokenId |-> IF p.invoiceCurrency = "EURC"
                                        THEN "ARC_EURC_TOKEN_ID"
                                        ELSE "ARC_USDC_TOKEN_ID",
                          amount |-> p.invoiceAmount,
                          destinationAddress |-> p.recipientAddress])>>,
            <<>>)
  ELSE RouteFinish(tr, [success |-> TRUE, error |-> <<>>])

\* 2. Bridge: up to the await of kit.bridge
EnterBridge(p, tr) ==
  IF p.bridgeNeeded /\ p.bridgeAmount # <<>> /\ HasStep(p, "bridge")
  THEN Exec("bridge_wait",
            tr \o <<Update("bridge", "running", <<>>, <<>>),
                    Call("kit.bridge", [amount |-> p.bridgeAmount[1]])>>,
            <<>>)
  ELSE EnterTransfer(p, tr)

\* 1. Swap: up to the await of the re-quote
EnterSwap(p, tr) ==
  IF p.swapNeeded /\ HasStep(p, "swap")
  THEN Exec("swap_quote", tr \o <<Update("swap", "running", <<>>, <<>>)>>, <<>>)
  ELSE EnterBridge(p, tr)

\* a catch that fails the step and goes on with the next one
Catch_GoOn(p, tr, at, thrown) ==
  LET tr2 == tr \o <<Fault(at, thrown)>> \o FailedUpdates(p.steps, ErrMsg(thrown))
  IN  CASE at = "swap" -> EnterBridge(p, tr2)
        [] at = "bridge" -> EnterTransfer(p, tr2)
        [] OTHER -> RouteFinish(tr2, [success |-> FALSE, error |-> ErrMsg(thrown)])

\* a catch that submits a failed transfer once more before giving up
Catch_RetryOnce(p, tr, at, thrown) ==
  LET tr2 == tr \o <<Fault(at, thrown)>> \o FailedUpdates(p.steps, ErrMsg(thrown))
      tried == {i \in 1..Len(tr) : tr[i].kind = "call" /\ tr[i].op = "executeTransfer"}
  IN  IF at = "transfer" /\ Cardinality(tried) < 2
      THEN EnterTransfer(p, tr2)
      ELSE RouteFinish(tr2, [success |-> FALSE, error |-> ErrMsg(thrown)])

\* the catch block of executeTreasuryPlan, entered from step `at`
Catch(p, tr, at, thrown) ==
  RouteFinish(tr \o <<Fault(at, thrown)>> \o FailedUpdates(p.steps, ErrMsg(thrown)),
              [success |-> FALSE, error |-> ErrMsg(thrown)])

\* a swap that reuses the bound computed at planning time
SwapSubmit_PlanQuote(p, tr, amountIn) ==
  LET needToSwap == FSub(p.deficit, parseFloat(p.sepoliaUsdcBalance))
      swapAmountUsdc == toFixed6(needToSwap)
  IN  Exec("swap_submit",
           tr \o <<Quote(swapAmountUsdc, amountIn),
                   Call("executeContractCall",
                        [walletId |-> SEPOLIA_WALLET_ID,
                         amountOut |-> swapAmountUsdc,
                         amountInMaximum |-> p.swapQuoteEth[1],
                         amount |-> p.swapQuoteEth[1]])>>,
           <<>>)

\* the quote has arrived: bound the input, build the call, submit it
SwapSubmit(p, tr, amountIn) ==
  LET needToSwap == FSub(p.deficit, parseFloat(p.sepoliaUsdcBalance))
      swapAmountUsdc == toFixed6(needToSwap)
      maxAmountIn == MaxAmountIn(amountIn)
  IN  Exec("swap_submit",
           tr \o <<Quote(swapAmountUsdc, amountIn),
                   Call("executeContractCall",
                        [walletId |-> SEPOLIA_WALLET_ID,
                         amountOut |-> swapAmountUsdc,
                         amountInMaximum |-> maxAmountIn,
                         amount |-> maxAmountIn])>>,
           <<>>)

\* a swap that is not awaited: the bridge starts while the swap is pending
AwaitCompletion_NotAwaited(p, at, tr) ==
  IF at = "swap_poll" THEN EnterBridge(p, tr) ELSE Exec(at, tr, <<>>)

\* a submission returned a transaction: poll it
AwaitCompletion(p, at, tr) == Exec(at, tr, <<>>)

\* the step's operation has completed: report success, go on
StepSucceeded(p, tr, stepId, txHash) ==
  LET tr2 == Append(tr, Update(stepId, "success", <<>>, <<txHash>>))
  IN  CASE stepId = "swap" -> EnterBridge(p, tr2)
        [] stepId = "bridge" -> EnterTransfer(p, tr2)
        [] OTHER -> RouteFinish(tr2, [success |-> TRUE, error |-> <<>>])

\* the consumer of the stream: step_update merges the event into the step
\* with that id, prev.map(s => s.id === data.stepId ? {...s, ...data} : s)
MergeUpdate(steps, data) ==
  [n \in 1..Len(steps) |->
     IF steps[n].id = data.stepId
     THEN [steps[n] EXCEPT !.status = data.status]
     ELSE steps[n]]

\* ------------------------------------------------------------------------
\* State
\* ------------------------------------------------------------------------

VARIABLES
  invoiceData,  \* the invoice handed to the planner
  pc,           \* control point of the session
  plan,         \* <<>> before planning, then <<the TreasuryPlan>>
  reads,        \* external reads made by buildTreasuryPlan, in order
  trace,        \* events, step updates, submissions and faults, in order
  result,       \* <<>> or <<what executeTreasuryPlan returned>>
  response,     \* <<>> or <<the response of the execute endpoint>>
  elapsed,      \* Date.now() - start of the polling loop in progress
  replan,       \* <<>> or <<what a second call of buildTreasuryPlan came to>>
  runs,         \* executions in progress side by side: plan and position of each
  clientInstance,  \* the client singleton of circleService: "null" or "client"
  workflow,     \* the invoice workflow of the streaming endpoint
  sizing        \* a quoted swap input and the bounds computed from it

vars ==
  <<invoiceData, pc, plan, reads, trace, result, response, elapsed, replan,
    runs, clientInstance, workflow, sizing>>

Init ==
  /\ invoiceData \in Invoices
  /\ pc = "start"
  /\ plan = <<>>
  /\ reads = <<>>
  /\ trace = <<>>
  /\ result = <<>>
  /\ response = <<>>
  /\ elapsed = 0
  /\ replan = <<>>
  /\ runs = <<>>
  /\ clientInstance = "null"
  /\ workflow = <<>>
  /\ sizing = <<>>

\* the treasury manager stage calls buildTreasuryPlan
BuildPlan ==
  /\ pc = "start"
  /\ \E env \in PlanningEnvs :
       LET r == buildTreasuryPlan(invoiceData, env)
       IN  /\ plan' = r.plan
           /\ reads' = r.reads
           /\ pc' = IF r.threw THEN "plan_error" ELSE "planned"
  /\ UNCHANGED <<invoiceData, sizing, workflow, clientInstance, runs, replan, trace, result, response, elapsed>>

\* a planner that remembers the funding it planned before and plans only the
\* transfer the second time
BuildPlanAgain_Remembering ==
  /\ pc = "planned"
  /\ replan = <<>>
  /\ \E env \in PlanningEnvs :
       LET r == buildTreasuryPlan(invoiceData, env)
       IN  replan' = <<IF ~r.threw /\ r.plan[1].canExecute
                       THEN [r EXCEPT !.plan[1].steps = <<Step("transfer")>>]
                       ELSE r>>
  /\ UNCHANGED <<invoiceData, sizing, workflow, clientInstance, runs, pc, plan, reads, trace, result, response, elapsed>>

\* the treasury manager stage runs again for the same invoice: a second call
\* of buildTreasuryPlan, with whatever the services answer then
BuildPlanAgain ==
  /\ pc = "planned"
  /\ replan = <<>>
  /\ \E env \in PlanningEnvs : replan' = <<buildTreasuryPlan(invoiceData, env)>>
  /\ UNCHANGED <<invoiceData, sizing, workflow, clientInstance, runs, pc, plan, reads, trace, result, response, elapsed>>

\* the executor moves to position e
Become(e) ==
  /\ pc' = e.pc
  /\ trace' = e.trace
  /\ result' = e.result
  /\ elapsed' = e.elapsed
  /\ UNCHANGED <<invoiceData, sizing, workflow, clientInstance, runs, replan, plan, reads, response>>

\* POST /api/treasury/execute without a treasuryPlan in the body
PostMissingPlan ==
  /\ pc = "plan_error"
  /\ response = <<>>
  /\ response' = <<[status |-> 400,
                    error |-> <<"Missing treasuryPlan in request body">>]>>
  /\ pc' = "rejected"
  /\ UNCHANGED <<invoiceData, sizing, workflow, clientInstance, runs, replan, plan, reads, trace, result, elapsed>>

\* an endpoint that streams whatever plan it is handed
PostNotExecutable_Streams ==
  /\ pc = "planned"
  /\ ~plan[1].canExecute
  /\ response' = <<[status |-> 200, error |-> <<>>]>>
  /\ LET e == EnterSwap(plan[1], <<Event("execution_start", <<>>)>>)
     IN  /\ pc' = e.pc
         /\ trace' = e.trace
         /\ result' = e.result
         /\ elapsed' = e.elapsed
  /\ UNCHANGED <<invoiceData, sizing, workflow, clientInstance, runs, replan, plan, reads>>

\* POST with a plan that cannot be executed
PostNotExecutable ==
  /\ pc = "planned"
  /\ ~plan[1].canExecute
  /\ response' = <<[status |-> 400,
                    error |-> IF plan[1].reason # <<>> THEN plan[1].reason
                              ELSE <<"Plan cannot be executed">>]>>
  /\ pc' = "rejected"
  /\ UNCHANGED <<invoiceData, sizing, workflow, clientInstance, runs, replan, plan, reads, trace, result, elapsed>>

\* POST with an executable plan: the stream starts, executeTreasuryPlan runs
\* up to its first await
PostExecute ==
  /\ pc = "planned"
  /\ plan[1].canExecute
  /\ response' = <<[status |-> 200, error |-> <<>>]>>
  /\ LET e == EnterSwap(plan[1], <<Event("execution_start", <<>>)>>)
     IN  /\ pc' = e.pc
         /\ trace' = e.trace
         /\ result' = e.result
         /\ elapsed' = e.elapsed
  /\ UNCHANGED <<invoiceData, sizing, workflow, clientInstance, runs, replan, plan, reads>>

\* the re-quote returns or throws
SwapQuoteReturn ==
  /\ pc = "swap_quote"
  /\ \/ \E amountIn \in QuoteAnswers : Become(SwapSubmit(plan[1], trace, amountIn))
     \/ \E thrown \in ThrownValues : Become(Catch(plan[1], trace, "swap", thrown))

\* executeContractCall returns a transaction, returns null, or throws
SwapSubmitReturn ==
  /\ pc = "swap_submit"
  /\ \/ Become(AwaitCompletion(plan[1], "swap_poll", trace))
     \/ Become(Catch(plan[1], trace, "swap", Err(<<"Swap transaction failed to submit">>)))
     \/ \E thrown \in ThrownValues : Become(Catch(plan[1], trace, "swap", thrown))

\* kit.bridge returns (with or without a mint step) or throws
BridgeReturn ==
  /\ pc = "bridge_wait"
  /\ \/ \E mintTxHash \in {"0xmint", "completed"} :
          Become(StepSucceeded(plan[1], trace, "bridge", mintTxHash))
     \/ \E thrown \in ThrownValues : Become(Catch(plan[1], trace, "bridge", thrown))

\* executeTransfer returns a transaction, returns null, or throws
TransferSubmitReturn ==
  /\ pc = "transfer_submit"
  /\ \/ Become(AwaitCompletion(plan[1], "transfer_poll", trace))
     \/ Become(Catch(plan[1], trace, "transfer", Err(<<"Arc transfer failed to submit">>)))
     \/ \E thrown \in ThrownValues : Become(Catch(plan[1], trace, "transfer", thrown))

\* the step and the transaction a polling loop is about
PollStep == IF pc = "swap_poll" THEN "swap" ELSE "transfer"
PollTx == IF pc = "swap_poll" THEN "tx-swap" ELSE "tx-transfer"

\* one turn of the loop of pollTransactionComplete: a status query
PollQuery ==
  /\ pc \in {"swap_poll", "transfer_poll"}
  /\ elapsed < timeoutMs
  /\ \/ \E txHash \in {"0xhash", PollTx} :
          Become(StepSucceeded(plan[1], trace, PollStep, txHash))
     \/ \E state \in {"FAILED", "CANCELLED"}, errorReason \in {"reverted", "unknown"} :
          Become(Catch(plan[1], trace, PollStep,
                       Err(<<"Transaction ", PollTx, state, errorReason>>)))
     \/ \E thrown \in ThrownValues : Become(Catch(plan[1], trace, PollStep, thrown))
     \/ \E latency \in 0..MaxLatency :
          /\ elapsed' = elapsed + latency * 1000 + POLL_INTERVAL_MS
          /\ UNCHANGED <<invoiceData, sizing, workflow, clientInstance, runs, replan, pc, plan, reads, trace, result, response>>

\* a loop that never gives up: past the timeout it just waits
PollTimeout_Never ==
  /\ pc \in {"swap_poll", "transfer_poll"}
  /\ elapsed >= timeoutMs
  /\ FALSE
  /\ UNCHANGED vars

\* the loop's condition fails: the timeout has elapsed
PollTimeout ==
  /\ pc \in {"swap_poll", "transfer_poll"}
  /\ elapsed >= timeoutMs
  /\ Become(Catch(plan[1], trace, PollStep, Err(<<"Transaction ", PollTx, " timed out">>)))

\* POST requests the endpoint is sent with one plan, at most
MaxRequests == 2

\* positions of the trace at which an execution was started
Executions ==
  {i \in 1..Len(trace) : trace[i] = Event("execution_start", <<>>)}

\* a further POST carrying the plan of an execution that has ended: the
\* endpoint keeps nothing between requests, so it starts the stream and
\* executeTreasuryPlan again
PostExecuteAgain ==
  /\ pc = "done"
  /\ plan[1].canExecute
  /\ Cardinality(Executions) < MaxRequests
  /\ response' = <<[status |-> 200, error |-> <<>>]>>
  /\ LET e == EnterSwap(plan[1], Append(trace, Event("execution_start", <<>>)))
     IN  /\ pc' = e.pc
         /\ trace' = e.trace
         /\ result' = e.result
         /\ elapsed' = e.elapsed
  /\ UNCHANGED <<invoiceData, sizing, workflow, clientInstance, runs, replan, plan, reads>>

Next ==
  \/ BuildPlan
  \/ PostMissingPlan
  \/ PostNotExecutable
  \/ PostExecute
  \/ SwapQuoteReturn
  \/ SwapSubmitReturn
  \/ BridgeReturn
  \/ TransferSubmitReturn
  \/ PollQuery
  \/ PollTimeout

Spec == Init /\ [][Next]_vars

\* the session from the moment a plan is shown for approval, for an invoice
\* of 50 USDC: Arc holds enough, or Sepolia's USDC covers the deficit, or a
\* swap is needed and the ETH held does or does not cover it
ApprovalInvoice ==
  [amount |-> <<Num(5000), Word("USDC")>>, walletAddress |-> "0xRecipient"]

ApprovalEnvs ==
  {env \in PlanningEnvs :
     /\ env.arc \in Returned(WalletBalances({1000, 10000}) \ {<<>>})
     /\ env.sepolia \in Returned(WalletBalances({2000, 4001}) \ {<<>>})
     /\ env.eth = <<105>>
     /\ env.quote \in Returned({100, 200})}

InitResubmit ==
  /\ invoiceData = ApprovalInvoice
  /\ pc = "planned"
  /\ \E env \in ApprovalEnvs :
       /\ plan = buildTreasuryPlan(ApprovalInvoice, env).plan
       /\ reads = buildTreasuryPlan(ApprovalInvoice, env).reads
  /\ trace = <<>>
  /\ result = <<>>
  /\ response = <<>>
  /\ elapsed = 0
  /\ replan = <<>>
  /\ runs = <<>>
  /\ clientInstance = "null"
  /\ workflow = <<>>
  /\ sizing = <<>>

\* the approved plan may be posted more than once
NextResubmit ==
  \/ PostNotExecutable
  \/ PostExecute
  \/ SwapQuoteReturn
  \/ SwapSubmitReturn
  \/ BridgeReturn
  \/ TransferSubmitReturn
  \/ PollQuery
  \/ PollTimeout
  \/ PostExecuteAgain

SpecResubmit == InitResubmit /\ [][NextResubmit]_vars

\* planning, and planning again
NextReplan == BuildPlan \/ BuildPlanAgain

SpecReplan == Init /\ [][NextReplan]_vars

\* every awaited status query returns or throws and every pause ends, so a
\* polling loop in progress takes its next turn
LiveSpec == Spec /\ WF_vars(PollQuery) /\ WF_vars(PollTimeout)

\* ------------------------------------------------------------------------
\* Executions side by side
\* ------------------------------------------------------------------------

\* two sessions whose plans are executed by the same process
Runs == {1, 2}

PollStepOf(at) == IF at = "swap_poll" THEN "swap" ELSE "transfer"
PollTxOf(at) == IF at = "swap_poll" THEN "tx-swap" ELSE "tx-transfer"

\* the positions executeTreasuryPlan(p, .) can move to from position r when
\* the call it awaits settles: what the actions of Next do, as a set
Outcomes(p, r) ==
  CASE r.pc = "swap_quote" ->
         {SwapSubmit(p, r.trace, amountIn) : amountIn \in QuoteAnswers}
           \cup {Catch(p, r.trace, "swap", thrown) : thrown \in ThrownValues}
    [] r.pc = "swap_submit" ->
         {AwaitCompletion(p, "swap_poll", r.trace),
          Catch(p, r.trace, "swap", Err(<<"Swap transaction failed to submit">>))}
           \cup {Catch(p, r.trace, "swap", thrown) : thrown \in ThrownValues}
    [] r.pc = "bridge_wait" ->
         {StepSucceeded(p, r.trace, "bridge", mintTxHash) :
            mintTxHash \in {"0xmint", "completed"}}
           \cup {Catch(p, r.trace, "bridge", thrown) : thrown \in ThrownValues}
    [] r.pc = "transfer_submit" ->
         {AwaitCompletion(p, "transfer_poll", r.trace),
          Catch(p, r.trace, "transfer", Err(<<"Arc transfer failed to submit">>))}
           \cup {Catch(p, r.trace, "transfer", thrown) : thrown \in ThrownValues}
    [] r.pc \in {"swap_poll", "transfer_poll"} /\ r.elapsed < timeoutMs ->
         {StepSucceeded(p, r.trace, PollStepOf(r.pc), txHash) :
            txHash \in {"0xhash", PollTxOf(r.pc)}}
           \cup {Catch(p, r.trace, PollStepOf(r.pc),
                       Err(<<"Transaction ", PollTxOf(r.pc), state, errorReason>>)) :
                   state \in {"FAILED", "CANCELLED"},
                   errorReason \in {"reverted", "unknown"}}
           \cup {Catch(p, r.trace, PollStepOf(r.pc), thrown) : thrown \in ThrownValues}
           \cup {[pc |-> r.pc, trace |-> r.trace, result |-> r.result,
                  elapsed |-> r.elapsed + latency * 1000 + POLL_INTERVAL_MS] :
                   latency \in 0..MaxLatency}
    [] r.pc \in {"swap_poll", "transfer_poll"} /\ r.elapsed >= timeoutMs ->
         {Catch(p, r.trace, PollStepOf(r.pc),
                Err(<<"Transaction ", PollTxOf(r.pc), " timed out">>))}
    [] OTHER -> {}

\* an execution: its plan and the executor's position
Run(p, e) ==
  [plan |-> p, pc |-> e.pc, trace |-> e.trace, result |-> e.result,
   elapsed |-> e.elapsed]

PositionOf(run) ==
  [pc |-> run.pc, trace |-> run.trace, result |-> run.result,
   elapsed |-> run.elapsed]

\* executeTransfer and executeContractCall begin with getClient(), which
\* creates the client the first time
UsesCircleClient(tr, tr2) ==
  \E n \in (Len(tr) + 1)..Len(tr2) :
    tr2[n].kind = "call" /\ tr2[n].op \in {"executeTransfer", "executeContractCall"}

getClient(before, tr, tr2) ==
  IF UsesCircleClient(tr, tr2) THEN "client" ELSE before

\* the plans of the two sessions: one pays from Arc at once, the other
\* bridges from Sepolia first
ConcurrentPlans ==
  [Runs ->
     {buildTreasuryPlan(ApprovalInvoice, env).plan[1] :
        env \in {e \in ApprovalEnvs : e.quote = <<100>>}}]

InitConcurrent ==
  /\ invoiceData = ApprovalInvoice
  /\ pc = "start"
  /\ plan = <<>>
  /\ reads = <<>>
  /\ trace = <<>>
  /\ result = <<>>
  /\ response = <<>>
  /\ elapsed = 0
  /\ replan = <<>>
  /\ \E ps \in ConcurrentPlans :
       /\ Len(ps[1].steps) = 1
       /\ Len(ps[2].steps) = 2
       /\ runs = [i \in Runs |-> Run(ps[i], Exec("planned", <<>>, <<>>))]
  /\ clientInstance = "null"
  /\ workflow = <<>>
  /\ sizing = <<>>

\* a POST for the plan of session i: the stream starts and the executor runs
\* up to its first await
RunStart(i) ==
  /\ runs[i].pc = "planned"
  /\ LET e == EnterSwap(runs[i].plan, <<Event("execution_start", <<>>)>>)
     IN  /\ runs' = [runs EXCEPT ![i] = Run(@.plan, e)]
         /\ clientInstance' = getClient(clientInstance, <<>>, e.trace)
  /\ UNCHANGED <<invoiceData, sizing, workflow, pc, plan, reads, trace, result, response, elapsed, replan>>

\* an executor whose progress callback is kept in one place for the whole
\* process: what execution 1 reports goes to the stream opened last
RunStep_SharedCallback(i) ==
  /\ \E e \in Outcomes(runs[i].plan, PositionOf(runs[i])) :
       LET said == SubSeq(e.trace, Len(runs[i].trace) + 1, Len(e.trace))
       IN  /\ runs' =
                IF i = 2 THEN [runs EXCEPT ![i] = Run(@.plan, e)]
                ELSE [runs EXCEPT
                        ![1] = Run(@.plan, [e EXCEPT !.trace = runs[1].trace]),
                        ![2] = [@ EXCEPT !.trace = @ \o said]]
           /\ clientInstance' = getClient(clientInstance, runs[i].trace, e.trace)
  /\ UNCHANGED <<invoiceData, sizing, workflow, pc, plan, reads, trace, result, response, elapsed, replan>>

\* the call awaited by execution i settles and the execution runs up to its
\* next await, or to its end
RunStep(i) ==
  /\ \E e \in Outcomes(runs[i].plan, PositionOf(runs[i])) :
       /\ runs' = [runs EXCEPT ![i] = Run(@.plan, e)]
       /\ clientInstance' = getClient(clientInstance, runs[i].trace, e.trace)
  /\ UNCHANGED <<invoiceData, sizing, workflow, pc, plan, reads, trace, result, response, elapsed, replan>>

NextConcurrent ==
  \/ \E i \in Runs : RunStart(i)
  \/ \E i \in Runs : RunStep(i)

SpecConcurrent == InitConcurrent /\ [][NextConcurrent]_vars

\* ------------------------------------------------------------------------
\* Plans as the endpoint receives them
\* ------------------------------------------------------------------------

\* the plans buildTreasuryPlan gives for the invoice shown for approval
BuiltPlans == {buildTreasuryPlan(ApprovalInvoice, env).plan[1] : env \in ApprovalEnvs}

\* a body whose treasuryPlan has no steps array
WithoutSteps(p) == [f \in DOMAIN p \ {"steps"} |-> p[f]]

\* the body of the request is whatever the client sends: the endpoint casts
\* it to TreasuryPlan and looks at canExecute only
SuppliedPlans ==
  BuiltPlans
    \cup {[p EXCEPT !.swapNeeded = FALSE] : p \in BuiltPlans}
    \cup {[p EXCEPT !.bridgeAmount = <<>>] : p \in BuiltPlans}
    \cup {[p EXCEPT !.steps = <<Step("approve")>> \o @] : p \in BuiltPlans}
    \cup {WithoutSteps(p) : p \in BuiltPlans}

InitSupplied ==
  /\ invoiceData = ApprovalInvoice
  /\ pc = "planned"
  /\ \E p \in SuppliedPlans : plan = <<p>>
  /\ reads = <<>>
  /\ trace = <<>>
  /\ result = <<>>
  /\ response = <<>>
  /\ elapsed = 0
  /\ replan = <<>>
  /\ runs = <<>>
  /\ clientInstance = "null"
  /\ workflow = <<>>
  /\ sizing = <<>>

\* what a TypeError on plan.steps says
StepsTypeError == <<"plan.steps is not iterable">>

\* POST with an executable plan without steps: plan.steps.find throws inside
\* the executor's try, for (const step of plan.steps) throws inside its catch,
\* so executeTreasuryPlan rejects and the catch of the stream sends the error
PostExecuteNoSteps ==
  /\ pc = "planned"
  /\ plan[1].canExecute
  /\ "steps" \notin DOMAIN plan[1]
  /\ response' = <<[status |-> 200, error |-> <<>>]>>
  /\ trace' = <<Event("execution_start", <<>>),
                Event("execution_error", StepsTypeError),
                Close>>
  /\ pc' = "done"
  /\ UNCHANGED <<invoiceData, sizing, workflow, clientInstance, runs, replan, plan, reads, result, elapsed>>

PostExecuteSteps ==
  /\ "steps" \in DOMAIN plan[1]
  /\ PostExecute

NextSupplied ==
  \/ PostNotExecutable
  \/ PostExecuteSteps
  \/ PostExecuteNoSteps
  \/ SwapQuoteReturn
  \/ SwapSubmitReturn
  \/ BridgeReturn
  \/ TransferSubmitReturn
  \/ PollQuery
  \/ PollTimeout

SpecSupplied == InitSupplied /\ [][NextSupplied]_vars

\* ------------------------------------------------------------------------
\* The invoice workflow of POST /api/agents/stream
\* ------------------------------------------------------------------------

Recommendations == {"APPROVE", "REVIEW", "REJECT"}

\* how a stage ends: it returns its new state, it returns currentStep 'error'
\* from its own catch, or something escapes it
StageEndings == {"returns", "error", "throws"}

\* sendEvent(controller, 'complete' | 'error', ...): what the final state
\* carries as treasuryPlan, <<>> for none
WorkflowEvent(e, treasuryPlan) ==
  [kind |-> "event", event |-> e, error |-> <<>>, treasuryPlan |-> treasuryPlan]

\* controller.close(): it closes an open controller, and throws on a closed one
controllerClose(w) ==
  [w EXCEPT !.stream = Append(@, Close),
            !.closed = TRUE,
            !.threw = @ \/ w.closed]

\* the finally block of start(), which ends the request
Finally(w) == [controllerClose(w) EXCEPT !.currentStep = "ended"]

\* if (state.currentStep === 'error') { sendEvent 'error'; close(); return; }
\* and then the finally block
OnStageError(w) ==
  Finally(controllerClose([w EXCEPT !.stream = Append(@, WorkflowEvent("error", <<>>))]))

\* the catch block of start(), then the finally block
OnStageThrow(w) ==
  Finally([w EXCEPT !.stream = Append(@, WorkflowEvent("error", <<>>))])

\* after a stage: stop on error or throw, else go on with the next stage
AfterStage(w, ending, next) ==
  CASE ending = "error" -> OnStageError(w)
    [] ending = "throws" -> OnStageThrow(w)
    [] OTHER -> [w EXCEPT !.currentStep = next]

InitWorkflow ==
  /\ invoiceData \in Invoices
  /\ pc = "start"
  /\ plan = <<>>
  /\ reads = <<>>
  /\ trace = <<>>
  /\ result = <<>>
  /\ response = <<>>
  /\ elapsed = 0
  /\ replan = <<>>
  /\ runs = <<>>
  /\ clientInstance = "null"
  /\ workflow = [currentStep |-> "extracting", recommendation |-> <<>>,
                 treasuryPlan |-> <<>>, planned |-> 0, stream |-> <<>>,
                 closed |-> FALSE, threw |-> FALSE]
  /\ sizing = <<>>

\* the extraction stage and the check of start() after it
pdfProcessorWithStream ==
  /\ workflow.currentStep = "extracting"
  /\ \E ending \in StageEndings : workflow' = AfterStage(workflow, ending, "scanning")
  /\ UNCHANGED <<invoiceData, pc, plan, reads, trace, result, response, elapsed,
                 replan, runs, clientInstance, sizing>>

\* the wallet scan
walletScannerWithStream ==
  /\ workflow.currentStep = "scanning"
  /\ \E ending \in StageEndings : workflow' = AfterStage(workflow, ending, "planning")
  /\ UNCHANGED <<invoiceData, pc, plan, reads, trace, result, response, elapsed,
                 replan, runs, clientInstance, sizing>>

\* the payment planning
paymentPlannerWithStream ==
  /\ workflow.currentStep = "planning"
  /\ \E ending \in StageEndings : workflow' = AfterStage(workflow, ending, "analyzing")
  /\ UNCHANGED <<invoiceData, pc, plan, reads, trace, result, response, elapsed,
                 replan, runs, clientInstance, sizing>>

\* a workflow that plans the treasury whatever the CFO recommends
cfoAssistantWithStream_AlwaysPlans ==
  /\ workflow.currentStep = "analyzing"
  /\ \/ \E ending \in {"error", "throws"} :
          workflow' = AfterStage(workflow, ending, "treasury")
     \/ \E r \in Recommendations :
          workflow' = [workflow EXCEPT !.recommendation = <<r>>,
                                       !.currentStep = "treasury"]
  /\ UNCHANGED <<invoiceData, pc, plan, reads, trace, result, response, elapsed,
                 replan, runs, clientInstance, sizing>>

\* the CFO stage, and the branch of start() on its recommendation: the
\* treasury stage if APPROVE, else complete without a treasury plan
cfoAssistantWithStream ==
  /\ workflow.currentStep = "analyzing"
  /\ \/ \E ending \in {"error", "throws"} :
          workflow' = AfterStage(workflow, ending, "treasury")
     \/ \E r \in Recommendations :
          LET w == [workflow EXCEPT !.recommendation = <<r>>]
          IN  workflow' =
                IF r = "APPROVE"
                THEN [w EXCEPT !.currentStep = "treasury"]
                ELSE Finally([w EXCEPT !.stream =
                                Append(@, WorkflowEvent("complete", <<>>))])
  /\ UNCHANGED <<invoiceData, pc, plan, reads, trace, result, response, elapsed,
                 replan, runs, clientInstance, sizing>>

\* the treasury stage: buildTreasuryPlan, then complete with the plan; a
\* throw of buildTreasuryPlan is caught by the stage and returned as error
treasuryManagerWithStream ==
  /\ workflow.currentStep = "treasury"
  /\ \/ workflow' = OnStageThrow(workflow)
     \/ \E env \in PlanningEnvs :
          LET r == buildTreasuryPlan(invoiceData, env)
              w == [workflow EXCEPT !.planned = @ + 1]
          IN  workflow' =
                IF r.threw THEN OnStageError(w)
                ELSE Finally([w EXCEPT
                                !.treasuryPlan = r.plan,
                                !.stream = Append(@, WorkflowEvent("complete", r.plan))])
  /\ UNCHANGED <<invoiceData, pc, plan, reads, trace, result, response, elapsed,
                 replan, runs, clientInstance, sizing>>

NextWorkflow ==
  \/ pdfProcessorWithStream
  \/ walletScannerWithStream
  \/ paymentPlannerWithStream
  \/ cfoAssistantWithStream
  \/ treasuryManagerWithStream

SpecWorkflow == InitWorkflow /\ [][NextWorkflow]_vars

\* ------------------------------------------------------------------------
\* The slippage bound
\* ------------------------------------------------------------------------

\* quoted inputs, in base units, up to MaxInput
MaxInput == 24

\* ETH balances around the bounds of those quotes
EthBalances == {0, 10, 19, 20, 21, 25, 30}

\* process.env.SWAP_SLIPPAGE_BPS: unset or empty, a whole number, a number
\* with a fraction, or text that is no number
SlippageSettings ==
  {[t |-> "unset", v |-> 0], [t |-> "fraction", v |-> 0], [t |-> "text", v |-> 0]}
    \cup {[t |-> "whole", v |-> v] : v \in {-5, 0, 30, 500}}

\* Number(process.env.SWAP_SLIPPAGE_BPS || '500'), returned if finite and not
\* negative, else 100; <<>> stands for a number with a fraction, which is
\* returned as it is and makes BigInt(10000 + slippageBps) throw
getSlippageBps(setting) ==
  CASE setting.t = "unset" -> <<500>>
    [] setting.t = "text" -> <<100>>
    [] setting.t = "fraction" -> <<>>
    [] OTHER -> IF setting.v >= 0 THEN <<setting.v>> ELSE <<100>>

\* the payment planner's swap branch after the quote: bound and funds check
buildPaymentPlan(amountIn, ethBalanceWei, setting) ==
  LET slippageBps == getSlippageBps(setting)
  IN  IF slippageBps = <<>> THEN [threw |-> TRUE, status |-> "none", maxEthInWei |-> <<>>,
                                   slippageBps |-> <<>>]
      ELSE LET maxAmountIn == (amountIn * (10000 + slippageBps[1])) \div 10000
           IN  [threw |-> FALSE,
                status |-> IF maxAmountIn > ethBalanceWei
                           THEN "INSUFFICIENT_FUNDS" ELSE "READY",
                maxEthInWei |-> <<maxAmountIn>>,
                slippageBps |-> slippageBps]

\* the answers under which the treasury planner has to swap, with the ETH
\* balance and the quote given
SwapEnv(amountIn, ethBalanceWei) ==
  LET env == CHOOSE e \in ApprovalEnvs :
               buildTreasuryPlan(ApprovalInvoice, e).plan[1].swapNeeded
  IN  [env EXCEPT !.eth = <<ethBalanceWei>>, !.quote = <<amountIn>>]

InitSizing ==
  /\ invoiceData = ApprovalInvoice
  /\ pc = "start"
  /\ plan = <<>>
  /\ reads = <<>>
  /\ trace = <<>>
  /\ result = <<>>
  /\ response = <<>>
  /\ elapsed = 0
  /\ replan = <<>>
  /\ runs = <<>>
  /\ clientInstance = "null"
  /\ workflow = <<>>
  /\ \E amountIn \in 0..MaxInput, ethBalanceWei \in EthBalances,
        setting \in SlippageSettings :
       sizing = [amountIn |-> amountIn, ethBalanceWei |-> ethBalanceWei,
                 setting |-> setting, treasuryPlan |-> <<>>,
                 submitted |-> <<>>, paymentPlan |-> <<>>]

\* buildTreasuryPlan with this quote and this ETH balance
SizeTreasuryPlan ==
  /\ sizing.treasuryPlan = <<>>
  /\ sizing' = [sizing EXCEPT !.treasuryPlan =
                  buildTreasuryPlan(invoiceData,
                                    SwapEnv(sizing.amountIn, sizing.ethBalanceWei)).plan]
  /\ UNCHANGED <<invoiceData, pc, plan, reads, trace, result, response, elapsed,
                 replan, runs, clientInstance, workflow>>

\* the executor's swap with this quote as the re-quote: the call it submits
SizeSubmission ==
  /\ sizing.treasuryPlan # <<>>
  /\ sizing.treasuryPlan[1].canExecute
  /\ sizing.submitted = <<>>
  /\ LET e == SwapSubmit(sizing.treasuryPlan[1], <<>>, sizing.amountIn)
     IN  sizing' = [sizing EXCEPT !.submitted = <<e.trace[Len(e.trace)].args>>]
  /\ UNCHANGED <<invoiceData, pc, plan, reads, trace, result, response, elapsed,
                 replan, runs, clientInstance, workflow>>

\* buildPaymentPlan with this quote and this ETH balance
SizePaymentPlan ==
  /\ sizing.paymentPlan = <<>>
  /\ sizing' = [sizing EXCEPT !.paymentPlan =
                  <<buildPaymentPlan(sizing.amountIn, sizing.ethBalanceWei,
                                     sizing.setting)>>]
  /\ UNCHANGED <<invoiceData, pc, plan, reads, trace, result, response, elapsed,
                 replan, runs, clientInstance, workflow>>

NextSizing == SizeTreasuryPlan \/ SizeSubmission \/ SizePaymentPlan

SpecSizing == InitSizing /\ [][NextSizing]_vars

\* ------------------------------------------------------------------------
\* The consumer of the execution stream
\* ------------------------------------------------------------------------

\* handleApprove before the request: setIsExecuting(true)
ConsumerStart == [isExecuting |-> TRUE, executionDone |-> FALSE, reading |-> TRUE]

\* new Error(data.error || 'Execution failed')
ErrorOf(error) ==
  IF error = <<>> \/ error = <<"">> THEN <<"Execution failed">> ELSE error

\* one event of the stream: execution_complete ends the executing state;
\* execution_error throws inside the try around the event, whose catch logs
\* every error but 'Execution failed' and carries on; only that one reaches
\* the outer catch, which does setIsExecuting(false) and ends the reading
Receive(c, ev) ==
  IF ~c.reading \/ ev.kind # "event" THEN c
  ELSE CASE ev.event = "execution_complete" ->
              [c EXCEPT !.isExecuting = FALSE, !.executionDone = TRUE]
         [] ev.event = "execution_error" ->
              IF ErrorOf(ev.error) = <<"Execution failed">>
              THEN [c EXCEPT !.isExecuting = FALSE, !.reading = FALSE]
              ELSE c
         [] OTHER -> c

\* the consumer after it has read the stream tr
RECURSIVE handleApprove(_, _)
handleApprove(c, tr) ==
  IF tr = <<>> THEN c ELSE handleApprove(Receive(c, Head(tr)), Tail(tr))

\* ------------------------------------------------------------------------
\* Vocabulary of the properties
\* ------------------------------------------------------------------------

StepIds == {"swap", "bridge", "transfer"}

\* positions of the trace holding an update for the step
UpdatesOf(id) ==
  {i \in 1..Len(trace) : trace[i].kind = "update" /\ trace[i].stepId = id}

LastUpdateOf(id) == CHOOSE i \in UpdatesOf(id) : \A j \in UpdatesOf(id) : j <= i

\* the status of a step as the receiver of the updates sees it: that of the
\* plan until an update arrives, then that of the latest update
StatusOf(id) ==
  IF UpdatesOf(id) = {} THEN "pending" ELSE trace[LastUpdateOf(id)].status

Faults == {i \in 1..Len(trace) : trace[i].kind = "fault"}

StepOrder == [i \in 1..Len(plan[1].steps) |-> plan[1].steps[i].id]

Returns == result # <<>>

\* the invoice as read by a person: the number and the currency of the first
\* number-currency pair, if the currency is USDC or EURC in any case
SupportedWords == {"USDC", "usdc", "EURC", "eurc"}

SupportedPairs ==
  {i \in 1..(Len(invoiceData.amount) - 1) :
     /\ invoiceData.amount[i].t = "num"
     /\ invoiceData.amount[i + 1].t = "word"
     /\ invoiceData.amount[i + 1].w \in SupportedWords}

InvoiceHundredths == invoiceData.amount[CHOOSE i \in SupportedPairs : TRUE].v

InvoiceIs(currencyWords) ==
  /\ SupportedPairs # {}
  /\ invoiceData.amount[(CHOOSE i \in SupportedPairs : TRUE) + 1].w \in currencyWords

\* the balance, in hundredths, that a read reported for a symbol
Reported(read, symbols) ==
  LET hits == {i \in 1..Len(read.answer[1]) : read.answer[1][i].symbol \in symbols}
  IN  IF hits = {} THEN 0
      ELSE read.answer[1][CHOOSE h \in hits : \A g \in hits : h <= g].amount

HasPlan == plan # <<>>

ArcWasRead == Len(reads) >= 1 /\ reads[1].answer # <<>>
SepoliaWasRead == Len(reads) >= 2 /\ reads[2].answer # <<>>
QuoteWasRead == Len(reads) >= 4 /\ reads[3].answer # <<>> /\ reads[4].answer # <<>>

\* ------------------------------------------------------------------------
\* Properties
\* ------------------------------------------------------------------------

\* C1: when the bridge, second step of a three-step plan, fails, the step
\* updates leave the swap at success, put the bridge at failed with a
\* non-empty error, never mention the transfer, and the result is a failure.
C1_PartialFailure ==
  (/\ Returns
   /\ StepOrder = <<"swap", "bridge", "transfer">>
   /\ \E i \in Faults : trace[i].at = "bridge")
  => /\ StatusOf("swap") = "success"
     /\ StatusOf("bridge") = "failed"
     /\ trace[LastUpdateOf("bridge")].error # <<>>
     /\ UpdatesOf("transfer") = {}
     /\ ~result[1].success

\* C2: when the executor returns, no step is left running: every running
\* update is followed by a success update or by a failed update that carries
\* the error message.
C2_NoStepLeftRunning ==
  Returns =>
    \A id \in StepIds :
      \A i \in UpdatesOf(id) :
        trace[i].status = "running" =>
          \E j \in UpdatesOf(id) :
            /\ j > i
            /\ \/ trace[j].status = "success"
               \/ trace[j].status = "failed" /\ trace[j].error # <<>>

\* C3: once a step's operation has failed, nothing is submitted any more and
\* the executor has returned success=false with a non-empty error.
C3_HaltOnFirstFailure ==
  \A i \in Faults :
    /\ \A j \in (i + 1)..Len(trace) : trace[j].kind \notin {"call", "quote"}
    /\ Returns
    /\ ~result[1].success
    /\ result[1].error # <<>>

C3_Witness ==
  /\ Returns
  /\ Len(plan[1].steps) = 3
  /\ \E i \in Faults :
       /\ trace[i].at = "swap"
       /\ trace[i].error = Err(<<"Transaction ", "tx-swap", " timed out">>)
  /\ \E j \in 1..Len(trace) : trace[j].kind = "call"

\* C4: a step is told running only after every step before it in the plan
\* was told success (or skipped), and two steps are never running together.
C4_StrictlySequential ==
  /\ \A j \in 1..Len(trace) :
       (trace[j].kind = "update" /\ trace[j].status = "running") =>
         \A k \in 1..Len(plan[1].steps) :
           (\E m \in (k + 1)..Len(plan[1].steps) : StepOrder[m] = trace[j].stepId) =>
             \E i \in 1..(j - 1) :
               /\ trace[i].kind = "update"
               /\ trace[i].stepId = StepOrder[k]
               /\ trace[i].status \in {"success", "skipped"}
  /\ Cardinality({id \in StepIds : StatusOf(id) = "running"}) <= 1

C4_Witness ==
  /\ pc = "transfer_poll"
  /\ StepOrder = <<"swap", "bridge", "transfer">>
  /\ StatusOf("transfer") = "running"

\* C5: an invoice in a supported currency whose Arc balance is at least the
\* amount plus the buffer gets exactly one pending Transfer step,
\* canExecute=true, and only the Arc balance was read.
C5_SufficientBalanceSingleTransfer ==
  (/\ HasPlan
   /\ SupportedPairs # {}
   /\ ArcWasRead
   /\ Reported(reads[1], IF InvoiceIs({"EURC", "eurc"}) THEN {"EURC"} ELSE {"USDC"})
        >= InvoiceHundredths + 1)
  => /\ plan[1].steps = <<Step("transfer")>>
     /\ plan[1].canExecute
     /\ Len(reads) = 1

\* C6: an executable plan for a USDC invoice with a deficit has the steps
\* swap, bridge, transfer when the deficit exceeds the USDC held on Sepolia and
\* bridge, transfer when that balance covers the deficit.
C6_FundedStepOrder ==
  (/\ HasPlan
   /\ InvoiceIs({"USDC", "usdc"})
   /\ ArcWasRead
   /\ Reported(reads[1], {"USDC"}) < InvoiceHundredths + 1
   /\ plan[1].canExecute)
  => /\ SepoliaWasRead
     /\ StepOrder =
          IF InvoiceHundredths + 1 - Reported(reads[1], {"USDC"})
               > Reported(reads[2], {"USDC"})
          THEN <<"swap", "bridge", "transfer">>
          ELSE <<"bridge", "transfer">>

\* C7: an amount that is not a number followed by USDC or EURC gets
\* canExecute=false, no steps and a reason, and nothing is read.
C7_UnsupportedCurrency ==
  (SupportedPairs = {} /\ pc # "start")
  => /\ HasPlan
     /\ ~plan[1].canExecute
     /\ plan[1].steps = <<>>
     /\ plan[1].reason # <<>>
     /\ reads = <<>>

C7_Witness ==
  /\ HasPlan
  /\ invoiceData.amount = <<Num(5000), Word("ETH")>>
  /\ plan[1].invoiceCurrency = "UNKNOWN"

C9_InsufficientEth ==
  (/\ HasPlan
   /\ QuoteWasRead
   /\ (reads[4].answer[1] * 10500) \div 10000 > reads[3].answer[1])
  => /\ ~plan[1].canExecute
     /\ plan[1].steps = <<>>
     /\ plan[1].reason =
          <<[kind |-> "Insufficient ETH on Sepolia for swap",
             need |-> (reads[4].answer[1] * 10500) \div 10000,
             have |-> reads[3].answer[1]]>>

C9_Witness ==
  /\ HasPlan
  /\ QuoteWasRead
  /\ reads[4].answer[1] = 200
  /\ reads[3].answer[1] = 209
  /\ ~plan[1].canExecute

\* Scenario B: invoice 50 USDC, 10 USDC on Arc, 20 USDC on Sepolia, enough ETH
ScenarioB ==
  /\ HasPlan
  /\ invoiceData.amount = <<Num(5000), Word("USDC")>>
  /\ ArcWasRead
  /\ Reported(reads[1], {"USDC"}) = 1000
  /\ SepoliaWasRead
  /\ Reported(reads[2], {"USDC"}) = 2000
  /\ plan[1].canExecute

\* C10, as stated: in Scenario B the deficit is 40, the swap produces 20 USDC,
\* the bridge moves 40 USDC and the transfer pays 50 USDC.
C10_ScenarioB_AsStated ==
  ScenarioB
  => /\ plan[1].deficit = parseFloat(4000)
     /\ reads[4].arg = 20000000
     /\ plan[1].bridgeAmount = <<40000000>>
     /\ plan[1].invoiceAmount = <<Num(5000)>>

\* C10, amended: in Scenario B the deficit is 40.01 (the buffer of 0.01 is
\* part of it), the swap produces 20.01 USDC, the bridge moves 40.01 USDC and
\* the transfer pays 50 USDC.
C10_ScenarioB ==
  ScenarioB
  => /\ plan[1].deficit = parseFloat(4001)
     /\ reads[4].arg = 20010000
     /\ plan[1].bridgeAmount = <<40010000>>
     /\ plan[1].invoiceAmount = <<Num(5000)>>
     /\ StepOrder = <<"swap", "bridge", "transfer">>

C10_Witness ==
  /\ ScenarioB
  /\ pc = "planned"
  /\ plan[1].swapNeeded

\* positions of the trace holding a submission of the given operation
CallsOf(op) == {i \in 1..Len(trace) : trace[i].kind = "call" /\ trace[i].op = op}

\* C11: the swap that is submitted is bounded by the quote obtained during
\* the execution, immediately before the submission: amountInMaximum and the
\* value sent are that quote plus the slippage, whatever swapQuoteEth the plan
\* carries from planning.
C11_RequoteBoundsSwap ==
  \A j \in CallsOf("executeContractCall") :
    /\ j > 1
    /\ trace[j - 1].kind = "quote"
    /\ trace[j - 1].exactAmount = trace[j].args.amountOut
    /\ \E i \in 1..(j - 2) : trace[i] = Event("execution_start", <<>>)
    /\ trace[j].args.amountInMaximum = (trace[j - 1].answer * 10500) \div 10000
    /\ trace[j].args.amount = trace[j].args.amountInMaximum

\* the price moved between planning and execution
C11_Witness ==
  /\ HasPlan
  /\ plan[1].swapQuoteEth = <<105>>
  /\ \E j \in CallsOf("executeContractCall") :
       /\ trace[j - 1].answer = 200
       /\ trace[j].args.amountInMaximum = 210

UnverifiedTexts == {"on-chain outcome unverified", "outcome unknown", "verify on-chain"}

StatesOutcomeUnverified(message) ==
  \E k \in 1..Len(message) : message[k] \in UnverifiedTexts

\* C13 (Scenario D): when the confirmation of the only step, the transfer,
\* times out, the result is a failure, the transfer is told failed, and the
\* error says that the outcome on chain is unverified.
C13_ScenarioD_Timeout ==
  (/\ Returns
   /\ StepOrder = <<"transfer">>
   /\ \E i \in Faults :
        /\ trace[i].at = "transfer"
        /\ trace[i].error = Err(<<"Transaction ", "tx-transfer", " timed out">>))
  => /\ ~result[1].success
     /\ StatusOf("transfer") = "failed"
     /\ StatesOutcomeUnverified(result[1].error)

Polling == pc \in {"swap_poll", "transfer_poll"}

\* the ways a polling loop may end: the transaction's hash or identifier is
\* returned and the step told success, or something is thrown; a timeout is
\* thrown only once timeoutMs has elapsed, and then nothing else happens
PollEnding ==
  Polling =>
    /\ elapsed' >= elapsed \/ ~Polling'
    /\ ~Polling' \/ pc' = pc
    /\ pc' # pc =>
         LET n == Len(trace) + 1
         IN  /\ Len(trace') >= n
             /\ \/ /\ trace'[n] \in {Update(PollStep, "success", <<>>, <<h>>) :
                                        h \in {"0xhash", PollTx}}
                    /\ elapsed < timeoutMs
                 \/ /\ trace'[n].kind = "fault"
                    /\ trace'[n].at = PollStep
                    /\ (trace'[n].error = Err(<<"Transaction ", PollTx, " timed out">>))
                         <=> (elapsed >= timeoutMs)
    /\ elapsed >= timeoutMs => pc' # pc

TerminalStatuses == {"success", "failed"}

\* the consumer's executionSteps after the first k entries of the trace
RECURSIVE ExecutionStepsAfter(_)
ExecutionStepsAfter(k) ==
  IF k = 0 THEN plan[1].steps
  ELSE IF trace[k].kind = "update"
       THEN MergeUpdate(ExecutionStepsAfter(k - 1), trace[k])
       ELSE ExecutionStepsAfter(k - 1)

\* C15: once a step has been told success or failed, no further update is
\* emitted for it, and the consumer's copy of the step keeps that status.
C15_TerminalStatusWriteOnce ==
  HasPlan =>
    /\ \A id \in StepIds :
         \A i \in UpdatesOf(id), j \in UpdatesOf(id) :
           i < j => trace[i].status \notin TerminalStatuses
    /\ \A k \in 1..Len(trace) :
         LET before == ExecutionStepsAfter(k - 1)
             after == ExecutionStepsAfter(k)
         IN  \A n \in 1..Len(plan[1].steps) :
               before[n].status \in TerminalStatuses =>
                 after[n].status = before[n].status

C15_Witness ==
  /\ Returns
  /\ ~result[1].success
  /\ StepOrder = <<"swap", "bridge", "transfer">>
  /\ ExecutionStepsAfter(Len(trace))[1].status = "success"
  /\ \E i \in Faults : trace[i].at = "bridge" /\ i > LastUpdateOf("swap")

\* C16: a plan is executed once: whatever is posted after an execution of the
\* plan has been started, no second execution starts and the plan's transfer
\* is not submitted a second time.
C16_PlanConsumedOnce ==
  /\ Cardinality(Executions) <= 1
  /\ Cardinality(CallsOf("executeTransfer")) <= 1

SubmissionOps == {"executeContractCall", "kit.bridge", "executeTransfer"}

\* C17: within one call of executeTreasuryPlan the swap, the bridge and the
\* transfer are each submitted at most once, whatever happens to them, and
\* after a failed result the endpoint sends execution_error and closes the
\* stream without calling the executor again.
C17_NoRetries ==
  /\ \A op \in SubmissionOps : Cardinality(CallsOf(op)) <= 1
  /\ Cardinality({i \in 1..Len(trace) : trace[i].kind = "quote"}) <= 1
  /\ Cardinality(Executions) <= 1
  /\ (Returns /\ ~result[1].success) =>
       /\ pc = "done"
       /\ Len(trace) >= 2
       /\ trace[Len(trace) - 1] = Event("execution_error", result[1].error)
       /\ trace[Len(trace)] = Close

C17_Witness ==
  /\ Returns
  /\ ~result[1].success
  /\ CallsOf("executeTransfer") # {}
  /\ \E i \in Faults :
       /\ trace[i].at = "transfer"
       /\ trace[i].error = Err(<<"Arc transfer failed to submit">>)

\* C18: a plan returned by buildTreasuryPlan has canExecute=false exactly
\* when it has no steps; a plan that cannot be executed carries a reason; a
\* plan that can be executed ends with the transfer and all its steps are
\* pending.
C18_PlanInvariants ==
  HasPlan =>
    LET p == plan[1]
    IN  /\ (~p.canExecute) <=> (p.steps = <<>>)
        /\ ~p.canExecute => p.reason # <<>>
        /\ p.canExecute =>
             /\ p.steps[Len(p.steps)].id = "transfer"
             /\ \A n \in 1..Len(p.steps) : p.steps[n].status = "pending"

C18_Witness ==
  /\ HasPlan
  /\ pc = "planned"
  /\ ~plan[1].canExecute
  /\ plan[1].steps = <<>>
  /\ plan[1].reason # <<>>
  /\ plan[1].reason[1].kind = "Insufficient EURC on Arc"
  /\ Len(reads) = 2

BalanceReads == {"getWalletTokenBalances", "getBalance"}

\* the two planning calls were given the same answers by the reads of the
\* given operations, wherever both made the read
SameAnswers(ops) ==
  \A i \in 1..Len(reads), j \in 1..Len(replan[1].reads) :
    (/\ reads[i].op \in ops
     /\ reads[i].op = replan[1].reads[j].op
     /\ (reads[i].op = "getWalletTokenBalances" => reads[i].arg = replan[1].reads[j].arg))
    => reads[i].answer = replan[1].reads[j].answer

PlannedTwice == HasPlan /\ replan # <<>> /\ ~replan[1].threw

SameShape ==
  /\ replan[1].plan[1].canExecute = plan[1].canExecute
  /\ [n \in 1..Len(replan[1].plan[1].steps) |-> replan[1].plan[1].steps[n].id]
       = StepOrder

ReadOps == {"getWalletTokenBalances", "getBalance", "quoteExactOutputSingle"}

\* C20: whatever path buildTreasuryPlan takes, the external operations it
\* performs are reads (token balances of the two wallets, the ETH balance, the
\* quote), in the order of the code; when it has returned or thrown, nothing
\* has been submitted.
C20_PlanningOnlyReads ==
  /\ \A i \in 1..Len(reads) : reads[i].op \in ReadOps
  /\ Len(reads) <= 4
  /\ Len(reads) >= 1 => reads[1] = Read("getWalletTokenBalances", ARC_WALLET_ID, reads[1].answer)
  /\ Len(reads) >= 2 => reads[2] = Read("getWalletTokenBalances", SEPOLIA_WALLET_ID, reads[2].answer)
  /\ Len(reads) >= 3 => reads[3].op = "getBalance"
  /\ Len(reads) >= 4 => reads[4].op = "quoteExactOutputSingle"
  /\ pc \in {"start", "planned", "plan_error", "rejected"} =>
       {i \in 1..Len(trace) : trace[i].kind = "call"} = {}

C20_Witness ==
  /\ pc = "planned"
  /\ Len(reads) = 4
  /\ plan[1].canExecute
  /\ plan[1].swapNeeded
  /\ trace = <<>>

\* positions of the trace holding a re-quote whose bound, with the slippage,
\* exceeds the ETH the Sepolia wallet holds (the balance read at planning,
\* nothing having moved since)
StaleQuotes ==
  {j \in 1..Len(trace) :
     /\ trace[j].kind = "quote"
     /\ (trace[j].answer * 10500) \div 10000 > plan[1].sepoliaEthBalance}

\* C21: when the quote obtained at execution, with its slippage, exceeds the
\* ETH held at that moment, no swap is submitted, the swap step fails and the
\* execution returns success=false.
C21_StaleQuoteAborts ==
  StaleQuotes # {} =>
    /\ CallsOf("executeContractCall") = {}
    /\ \E i \in Faults : trace[i].at = "swap"
    /\ Returns
    /\ ~result[1].success

\* the step ids of a plan
StepIdsOf(p) == {p.steps[k].id : k \in 1..Len(p.steps)}

OtherRun(i) == CHOOSE j \in Runs : j # i

\* what is told to the callback of execution i concerns the steps of its plan
UpdatesOwn ==
  \A i \in Runs :
    \A n \in 1..Len(runs[i].trace) :
      runs[i].trace[n].kind = "update" =>
        runs[i].trace[n].stepId \in StepIdsOf(runs[i].plan)

\* a step of the process is a step of one execution, and it is a step that
\* execution takes when it runs alone: it depends on nothing but the plan and
\* the position of that execution and on what the awaited call answers
StepAlone ==
  \A i \in Runs :
    runs'[i] # runs[i] =>
      /\ runs'[OtherRun(i)] = runs[OtherRun(i)]
      /\ runs'[i].plan = runs[i].plan
      /\ \/ /\ runs[i].pc = "planned"
            /\ PositionOf(runs'[i]) =
                 EnterSwap(runs[i].plan, <<Event("execution_start", <<>>)>>)
         \/ PositionOf(runs'[i]) \in Outcomes(runs[i].plan, PositionOf(runs[i]))

WalletOf(op) == IF op = "executeTransfer" THEN "ARC_WALLET" ELSE "SEPOLIA_WALLET"

\* the wallet whose transaction an execution has submitted and is waiting
\* for, if any
InFlightFrom(run) ==
  CASE run.pc \in {"swap_poll", "bridge_wait"} -> "SEPOLIA_WALLET"
    [] run.pc = "transfer_poll" -> "ARC_WALLET"
    [] OTHER -> "none"

\* the wallets execution i submits a transaction from in the step
SubmitsFrom(i) ==
  {WalletOf(runs'[i].trace[n].op) :
     n \in {m \in (Len(runs[i].trace) + 1)..Len(runs'[i].trace) :
              runs'[i].trace[m].kind = "call"}}

SubmissionsSerialized ==
  \A i \in Runs : InFlightFrom(runs[OtherRun(i)]) \notin SubmitsFrom(i)

\* C23: no execution submits a transaction from a wallet while a transaction
\* that another execution submitted from the same wallet has not reached a
\* terminal state.
C23_SubmissionsSerialized == [][SubmissionsSerialized]_vars

\* the submission a step stands for
SubmissionOf(id) ==
  CASE id = "swap" -> "executeContractCall"
    [] id = "bridge" -> "kit.bridge"
    [] OTHER -> "executeTransfer"

\* C26: a step is told running only after its transaction was submitted:
\* every running update of a step comes after the submission call of that
\* step, so that a step whose quote or submission fails is never seen running.
C26_RunningAfterSubmission ==
  \A n \in 1..Len(trace) :
    (trace[n].kind = "update" /\ trace[n].status = "running") =>
      \E m \in 1..(n - 1) :
        trace[m].kind = "call" /\ trace[m].op = SubmissionOf(trace[n].stepId)

\* what the stream carries: events, step updates and the close
OnStream == {n \in 1..Len(trace) : trace[n].kind \in {"event", "update", "close"}}

EventsNamed(e) ==
  {n \in 1..Len(trace) : trace[n].kind = "event" /\ trace[n].event = e}

TerminalEvents == EventsNamed("execution_complete") \cup EventsNamed("execution_error")

Closes == {n \in 1..Len(trace) : trace[n].kind = "close"}

ListedSteps == IF "steps" \in DOMAIN plan[1] THEN plan[1].steps ELSE <<>>

\* C28: the executor returns success only if every step listed in the plan it
\* was given has been told success; no listed step is left pending.
C28_SuccessMeansAllSteps ==
  (Returns /\ result[1].success) =>
    \A k \in 1..Len(ListedSteps) :
      \E n \in 1..Len(trace) :
        /\ trace[n].kind = "update"
        /\ trace[n].stepId = ListedSteps[k].id
        /\ trace[n].status = "success"

\* C29: when the stream of an execution has carried execution_error, whatever
\* its message, the consumer is out of the executing state once the stream
\* has ended: isExecuting is false and executionDone is false.
C29_ConsumerLeavesExecuting ==
  (pc = "done" /\ EventsNamed("execution_error") # {}) =>
    /\ ~handleApprove(ConsumerStart, trace).isExecuting
    /\ ~handleApprove(ConsumerStart, trace).executionDone

\* the events of the workflow's stream with a given name
WorkflowEvents(e) ==
  {n \in 1..Len(workflow.stream) :
     workflow.stream[n].kind = "event" /\ workflow.stream[n].event = e}

WorkflowCloses ==
  {n \in 1..Len(workflow.stream) : workflow.stream[n].kind = "close"}

\* C24: in the streaming workflow buildTreasuryPlan is called only after the
\* CFO stage has recommended APPROVE, and at most once: never on REVIEW or
\* REJECT, never when an earlier stage ended in error (no recommendation is
\* reached then); a complete event of a workflow that was not approved
\* carries no treasury plan.
C24_PlanOnlyOnApprove ==
  /\ workflow.planned > 0 =>
       workflow.planned = 1 /\ workflow.recommendation = <<"APPROVE">>
  /\ workflow.recommendation # <<"APPROVE">> =>
       /\ workflow.treasuryPlan = <<>>
       /\ \A n \in WorkflowEvents("complete") :
            workflow.stream[n].treasuryPlan = <<>>

\* a workflow that ended with a recommendation to review: complete, no plan
C24_Witness ==
  /\ workflow.currentStep = "ended"
  /\ workflow.recommendation = <<"REVIEW">>
  /\ WorkflowEvents("complete") # {}
  /\ workflow.planned = 0

\* C30: the controller of the workflow's stream is closed exactly once on
\* every path: when the request has ended, close was called once, never on a
\* closed controller, and exactly one complete or error event precedes it.
C30_ClosedOnce ==
  workflow.currentStep = "ended" =>
    /\ Cardinality(WorkflowCloses) = 1
    /\ ~workflow.threw
    /\ Cardinality(WorkflowEvents("complete") \cup WorkflowEvents("error")) = 1
    /\ workflow.stream[Len(workflow.stream)].kind = "close"

\* m is the integer part of requiredInput * (10000 + slippageBps) / 10000
IsFloorBound(m, requiredInput, slippageBps) ==
  /\ m * 10000 <= requiredInput * (10000 + slippageBps)
  /\ requiredInput * (10000 + slippageBps) < (m + 1) * 10000

\* C25: the bound put on a quoted input is the integer part of
\* requiredInput * (10000 + slippageBps) / 10000, with slippageBps 500 in the
\* treasury planner and in the executor, and it is never below the quote; a
\* planner calls the swap executable (canExecute, READY) only if the bound
\* is within the ETH balance.
C25_SlippageBound ==
  /\ \A n \in 1..Len(sizing.treasuryPlan) :
       LET p == sizing.treasuryPlan[n]
       IN  /\ IsFloorBound(p.swapQuoteEth[1], sizing.amountIn, 500)
           /\ p.swapQuoteEth[1] >= sizing.amountIn
           /\ p.canExecute => p.swapQuoteEth[1] <= sizing.ethBalanceWei
  /\ \A n \in 1..Len(sizing.submitted) :
       /\ IsFloorBound(sizing.submitted[n].amountInMaximum, sizing.amountIn, 500)
       /\ sizing.submitted[n].amount = sizing.submitted[n].amountInMaximum
  /\ \A n \in 1..Len(sizing.paymentPlan) :
       LET p == sizing.paymentPlan[n]
       IN  ~p.threw =>
             /\ IsFloorBound(p.maxEthInWei[1], sizing.amountIn, p.slippageBps[1])
             /\ p.maxEthInWei[1] >= sizing.amountIn
             /\ p.status = "READY" => p.maxEthInWei[1] <= sizing.ethBalanceWei

\* a quote of 19 units: the bound is 19.95 cut to 19, which the balance of
\* 19 covers, in both planners
C25_Witness ==
  /\ sizing.amountIn = 19
  /\ sizing.ethBalanceWei = 19
  /\ sizing.treasuryPlan # <<>> /\ sizing.treasuryPlan[1].canExecute
  /\ sizing.submitted # <<>> /\ sizing.submitted[1].amountInMaximum = 19
  /\ sizing.paymentPlan # <<>> /\ sizing.paymentPlan[1].status = "READY"
  /\ sizing.paymentPlan[1].slippageBps = <<500>>

====
